---- MODULE Spec2Model ----
(***************************************************************************)
(* A model of the toml_schema crate: the schema constructor                *)
(* (src/src/constructor.rs), the kind taxonomy (src/src/schema_type.rs)    *)
(* and the matching engine (src/src/parse_toml.rs).                        *)
(*                                                                         *)
(* Strings are sequences of one-character strings, so that the crate's     *)
(* character-level operations (regex search, stripping a leading '$',      *)
(* the byte order of table keys) are computed and not assumed.             *)
(***************************************************************************)
EXTENDS Integers, Sequences, FiniteSets, TLC

VARIABLES
    schema,     \* the TomlSchema the caller holds, or NoSchema
    built,      \* outcome of the last construction
    data,       \* the candidate toml::Value the caller holds, or NoData
    before,     \* the candidate as it was when the last call started
    result      \* outcome of the last check / check_and_complete call

vars == <<schema, built, data, before, result>>

-----------------------------------------------------------------------------
(* Bounds of the model *)

\* candidate integers range over -MaxInt..MaxInt (and the two i64 extremes)
MaxInt == 2
\* candidate arrays have at most MaxArrLen elements
MaxArrLen == 3
\* candidate tables have at most MaxKeys keys
MaxKeys == 2

(* Program constants.  TLC's integers are 32 bits wide, so the extremes of  *)
(* i64 and usize are modelled by the extremes TLC can hold; no arithmetic   *)
(* is done on them, only comparisons.                                       *)
I64_MIN == -2147483647
I64_MAX == 2147483647
USIZE_MAX == 2147483647

-----------------------------------------------------------------------------
(* Strings *)

\* the characters the model uses, in byte order
Ascii ==
    << "$", "(", "*", ".", "0", "1", "5", "^", "_",
       "a", "b", "c", "d", "e", "f", "g", "h", "i", "j", "k", "l", "m",
       "n", "o", "p", "q", "r", "s", "t", "u", "v", "w", "x", "y", "z" >>

Code(c) == CHOOSE i \in 1..Len(Ascii) : Ascii[i] = c

\* String's Ord: lexicographic on bytes
RECURSIVE StrLess(_, _)
StrLess(a, b) ==
    IF Len(a) = 0 THEN Len(b) > 0
    ELSE IF Len(b) = 0 THEN FALSE
    ELSE IF Head(a) = Head(b) THEN StrLess(Tail(a), Tail(b))
    ELSE Code(Head(a)) < Code(Head(b))

\* the keys of a toml::Table in the order its iterator yields them: the
\* map is a BTreeMap, ordered by key
RECURSIVE SortedKeys(_)
SortedKeys(S) ==
    IF S = {} THEN <<>>
    ELSE LET m == CHOOSE k \in S : \A j \in S : j = k \/ StrLess(k, j)
         IN  <<m>> \o SortedKeys(S \ {m})

\* Option<T>
None == <<>>
Some(x) == <<x>>
IsSome(o) == Len(o) = 1
Unwrap(o) == o[1]

-----------------------------------------------------------------------------
(* toml::Value *)

VString(s)   == [k |-> "String", v |-> s]
VInteger(i)  == [k |-> "Integer", v |-> i]
VFloat(f)    == [k |-> "Float", v |-> f]
VBoolean(b)  == [k |-> "Boolean", v |-> b]
VDatetime(d) == [k |-> "Datetime", v |-> d]
VArray(a)    == [k |-> "Array", v |-> a]
VTable(t)    == [k |-> "Table", v |-> t]

\* the empty toml::Table
EmptyMap == [x \in {} |-> x]

\* f64: a NaN, an infinity, or a finite number x
FNaN    == [c |-> "nan", x |-> 0]
FNegInf == [c |-> "neg_inf", x |-> 0]
FPosInf == [c |-> "pos_inf", x |-> 0]
FNum(x) == [c |-> "fin", x |-> x]

FIsNan(f) == f.c = "nan"

\* f64's <= : false as soon as one side is NaN
FLe(a, b) ==
    /\ ~FIsNan(a)
    /\ ~FIsNan(b)
    /\ \/ a.c = "neg_inf"
       \/ b.c = "pos_inf"
       \/ a.c = "fin" /\ b.c = "fin" /\ a.x <= b.x

-----------------------------------------------------------------------------
(* Regex, on the patterns the model uses: an optional leading '^', an       *)
(* optional trailing '$', and between them either ".*" or literal           *)
(* characters.  A pattern holding '(' is an unclosed group.                 *)

HasChar(p, c) == \E i \in 1..Len(p) : p[i] = c

\* Regex::new succeeds
RegexValid(p) == ~HasChar(p, "(")

AnchoredStart(p) == Len(p) > 0 /\ p[1] = "^"
AnchoredEnd(p) == Len(p) > 0 /\ p[Len(p)] = "$"

PatternBody(p) ==
    SubSeq(p, IF AnchoredStart(p) THEN 2 ELSE 1,
              IF AnchoredEnd(p) THEN Len(p) - 1 ELSE Len(p))

\* Regex::is_match: the pattern is found somewhere in s
IsMatch(p, s) ==
    LET body == PatternBody(p)
        n == Len(body)
    IN  \/ body = <<".", "*">>
        \/ \E i \in 1..(Len(s) - n + 1) :
              /\ SubSeq(s, i, i + n - 1) = body
              /\ AnchoredStart(p) => i = 1
              /\ AnchoredEnd(p) => i + n - 1 = Len(s)

-----------------------------------------------------------------------------
(* TomlSchema and SchemaType *)

SString(re)          == [t |-> "String", regex |-> re]
SInteger(min, max)   == [t |-> "Integer", min |-> min, max |-> max]
SFloat(min, max, nk) == [t |-> "Float", min |-> min, max |-> max, nan_ok |-> nk]
SDate                == [t |-> "Date"]
SBool                == [t |-> "Bool"]
SAnything            == [t |-> "Anything"]
SExact(v)            == [t |-> "Exact", value |-> v]
SAlternative(opts)   == [t |-> "Alternative", opts |-> opts]
SArray(cond, min, max) == [t |-> "Array", cond |-> cond, min |-> min, max |-> max]
STable(extras, min, max, entries) ==
    [t |-> "Table", extras |-> extras, min |-> min, max |-> max, entries |-> entries]

TableEntry(key, value) == [key |-> key, value |-> value]

\* From<&TomlSchema> for SchemaType.  The match has no arm for Anything and
\* Exact; from_table names SchemaType::Anything and SchemaType::Exact, and
\* those are the kinds given to them here.
SchemaTypeOfSchema(s) == s.t

\* From<&toml::Value> for SchemaType
SchemaTypeOfValue(v) ==
    CASE v.k = "String"   -> "String"
      [] v.k = "Integer"  -> "Integer"
      [] v.k = "Float"    -> "Float"
      [] v.k = "Boolean"  -> "Bool"
      [] v.k = "Datetime" -> "Date"
      [] v.k = "Array"    -> "Array"
      [] v.k = "Table"    -> "Table"

-----------------------------------------------------------------------------
(* Result<(), SchemaError>.  calls is the number of invocations of check    *)
(* that produced the result, this one included: it records how much of the  *)
(* candidate was inspected.                                                 *)

OkR(c) == [ok |-> TRUE, calls |-> c]
ErrR(e, c) == [ok |-> FALSE, err |-> e, calls |-> c]

\* a variant of the integer test with the minimum excluded
IntInRangeStrict(i, min, max) == i > min /\ i <= max

\* the bound tests of check
IntInRange(i, min, max) == i >= min /\ i <= max
\* a variant of the float test where nan_ok lets every float through
FloatInRangeNanLoose(f, min, max, nan_ok) == nan_ok \/ (FLe(min, f) /\ FLe(f, max))
FloatInRange(f, min, max, nan_ok) == (nan_ok /\ FIsNan(f)) \/ (FLe(min, f) /\ FLe(f, max))

\* a variant of the array count test that also refuses a full array
ArrayCountOutFull(len, min, max) == len < min \/ len >= max
ArrayCountOut(len, min, max) == len < min \/ len > max

\* a variant of the extras count test with the maximum excluded
ExtrasCountOkStrict(found_extras, min, max) == found_extras >= min /\ found_extras < max
ExtrasCountOk(found_extras, min, max) == found_extras >= min /\ found_extras <= max

\* a variant of the lookup that finds no literal entry
EntriesGetNothing(entries, key) == None

\* HashMap::get on the literal entries
EntriesGet(entries, key) ==
    IF key \in DOMAIN entries THEN Some(entries[key]) ELSE None

\* the last arm of the match: no arm took the pair
TypeMismatch(s, v) ==
    ErrR([e |-> "TypeMismatch", expected |-> SchemaTypeOfSchema(s),
          got |-> SchemaTypeOfValue(v)], 1)

RECURSIVE Check(_, _)
RECURSIVE find_extra_match(_, _, _, _, _, _)
RECURSIVE find_extra_match_any_key(_, _, _, _, _, _)
RECURSIVE AlternativeLoop(_, _, _, _, _)
RECURSIVE AlternativeLoopLastError(_, _, _, _, _)
RECURSIVE ArrayLoop(_, _, _, _)
RECURSIVE TableLoop(_, _, _, _, _, _, _, _, _)
RECURSIVE TableLoopOpen(_, _, _, _, _, _, _, _, _)

\* a variant of find_extra_match that tries every record, whatever its key
\* pattern
find_extra_match_any_key(extras, key, value, i, errors, calls) ==
    IF i > Len(extras) THEN [ok |-> FALSE, errors |-> errors, calls |-> calls]
    ELSE LET r == Check(extras[i].value, value)
         IN  IF r.ok THEN [ok |-> TRUE, errors |-> errors, calls |-> calls + r.calls]
             ELSE find_extra_match_any_key(extras, key, value, i + 1,
                                           Append(errors, r.err), calls + r.calls)

\* find_extra_match, from record i on, with the errors pushed so far
find_extra_match(extras, key, value, i, errors, calls) ==
    IF i > Len(extras) THEN [ok |-> FALSE, errors |-> errors, calls |-> calls]
    ELSE IF IsMatch(extras[i].key, key)
    THEN LET r == Check(extras[i].value, value)
         IN  IF r.ok THEN [ok |-> TRUE, errors |-> errors, calls |-> calls + r.calls]
             ELSE find_extra_match(extras, key, value, i + 1,
                                   Append(errors, r.err), calls + r.calls)
    ELSE find_extra_match(extras, key, value, i + 1, errors, calls)

\* a variant of the Alternative loop that keeps only the error of the last
\* option it tried
AlternativeLoopLastError(opts, any, i, errors, calls) ==
    IF i > Len(opts)
    THEN ErrR([e |-> "NoMatch", value |-> any, errors |-> errors], calls)
    ELSE LET r == Check(opts[i], any)
         IN  IF r.ok THEN OkR(calls + r.calls)
             ELSE AlternativeLoopLastError(opts, any, i + 1, <<r.err>>,
                                           calls + r.calls)

\* the loop of the Alternative arm, from option i on
AlternativeLoop(opts, any, i, errors, calls) ==
    IF i > Len(opts)
    THEN ErrR([e |-> "NoMatch", value |-> any, errors |-> errors], calls)
    ELSE LET r == Check(opts[i], any)
         IN  IF r.ok THEN OkR(calls + r.calls)
             ELSE AlternativeLoop(opts, any, i + 1, Append(errors, r.err),
                                  calls + r.calls)

\* the loop of the Array arm, from element i on
ArrayLoop(cond, arr, i, calls) ==
    IF i > Len(arr) THEN OkR(calls)
    ELSE LET r == Check(cond, arr[i])
         IN  IF r.ok THEN ArrayLoop(cond, arr, i + 1, calls + r.calls)
             ELSE ErrR([e |-> "AtIndex", val |-> arr[i], error |-> r.err],
                       calls + r.calls)

\* a variant of the Table loop that passes over a key no extras pattern
\* matches
TableLoopOpen(entries, extras, min, max, table, keys, i, found_extras, calls) ==
    IF i > Len(keys)
    THEN IF ExtrasCountOk(found_extras, min, max) THEN OkR(calls)
         ELSE ErrR([e |-> "TableCount", count |-> found_extras,
                    min |-> min, max |-> max], calls)
    ELSE LET key == keys[i]
             value == table[key]
             entry == EntriesGet(entries, key)
         IN  IF IsSome(entry)
             THEN LET r == Check(Unwrap(entry).schema, value)
                  IN  IF r.ok
                      THEN TableLoopOpen(entries, extras, min, max, table, keys,
                                         i + 1, found_extras, calls + r.calls)
                      ELSE ErrR([e |-> "AtKey", key |-> key, error |-> r.err],
                                calls + r.calls)
             ELSE IF \A n \in 1..Len(extras) : ~IsMatch(extras[n].key, key)
             THEN TableLoopOpen(entries, extras, min, max, table, keys,
                                i + 1, found_extras, calls)
             ELSE LET m == find_extra_match(extras, key, value, 1, <<>>, 0)
                  IN  IF m.ok
                      THEN TableLoopOpen(entries, extras, min, max, table, keys,
                                         i + 1, found_extras + 1, calls + m.calls)
                      ELSE ErrR([e |-> "NoMatch", value |-> value,
                                 errors |-> m.errors], calls + m.calls)

\* the loop of the Table arm over the candidate's pairs, from the i-th key
\* on, and the test of the extras count that follows it
TableLoop(entries, extras, min, max, table, keys, i, found_extras, calls) ==
    IF i > Len(keys)
    THEN IF ExtrasCountOk(found_extras, min, max) THEN OkR(calls)
         ELSE ErrR([e |-> "TableCount", count |-> found_extras,
                    min |-> min, max |-> max], calls)
    ELSE LET key == keys[i]
             value == table[key]
             entry == EntriesGet(entries, key)
         IN  IF IsSome(entry)
             THEN LET r == Check(Unwrap(entry).schema, value)
                  IN  IF r.ok
                      THEN TableLoop(entries, extras, min, max, table, keys,
                                     i + 1, found_extras, calls + r.calls)
                      ELSE ErrR([e |-> "AtKey", key |-> key, error |-> r.err],
                                calls + r.calls)
             ELSE LET m == find_extra_match(extras, key, value, 1, <<>>, 0)
                  IN  IF m.ok
                      THEN TableLoop(entries, extras, min, max, table, keys,
                                     i + 1, found_extras + 1, calls + m.calls)
                      ELSE ErrR([e |-> "NoMatch", value |-> value,
                                 errors |-> m.errors], calls + m.calls)

\* the Table arm once the defaults are dealt with: req_entries is filled
\* and emptied by the code but never read, so it has no effect
CheckTable(s, table) ==
    TableLoop(s.entries, s.extras, s.min, s.max, table,
              SortedKeys(DOMAIN table), 1, 0, 1)

\* TomlSchema::check
Check(s, d) ==
    CASE s.t = "String" /\ d.k = "String" ->
            IF IsMatch(s.regex, d.v) THEN OkR(1)
            ELSE ErrR([e |-> "RegexMiss", string |-> d.v, re |-> s.regex], 1)
      [] s.t = "Integer" /\ d.k = "Integer" ->
            IF IntInRange(d.v, s.min, s.max) THEN OkR(1)
            ELSE ErrR([e |-> "IntMiss", val |-> d.v, min |-> s.min, max |-> s.max], 1)
      [] s.t = "Float" /\ d.k = "Float" ->
            IF FloatInRange(d.v, s.min, s.max, s.nan_ok) THEN OkR(1)
            ELSE ErrR([e |-> "FloatMiss", val |-> d.v, min |-> s.min,
                       max |-> s.max, nan_ok |-> s.nan_ok], 1)
      [] s.t = "Date" /\ d.k = "Datetime" -> OkR(1)
      [] s.t = "Bool" /\ d.k = "Boolean" -> OkR(1)
      [] s.t = "Alternative" -> AlternativeLoop(s.opts, d, 1, <<>>, 1)
      [] s.t = "Array" /\ d.k = "Array" ->
            IF ArrayCountOut(Len(d.v), s.min, s.max)
            THEN ErrR([e |-> "ArrayMiss", count |-> Len(d.v),
                       min |-> s.min, max |-> s.max], 1)
            ELSE ArrayLoop(s.cond, d.v, 1, 1)
      [] s.t = "Table" /\ d.k = "Table" -> CheckTable(s, d.v)
      [] OTHER -> TypeMismatch(s, d)

-----------------------------------------------------------------------------
(* The schema constructor.  A construction yields the node and its default, *)
(* or an error: the message, the key or pattern it names, and the error of  *)
(* the nested construction it wraps, if any.                                *)

K_type    == <<"t", "y", "p", "e">>
K_default == <<"d", "e", "f", "a", "u", "l", "t">>
K_regex   == <<"r", "e", "g", "e", "x">>
K_min     == <<"m", "i", "n">>
K_max     == <<"m", "a", "x">>
K_nan_ok  == <<"n", "a", "n", "_", "o", "k">>
K_value   == <<"v", "a", "l", "u", "e">>
K_child   == <<"c", "h", "i", "l", "d">>
K_extras  == <<"e", "x", "t", "r", "a", "s">>
K_key     == <<"k", "e", "y">>
K_schema  == <<"s", "c", "h", "e", "m", "a">>
K_options == <<"o", "p", "t", "i", "o", "n", "s">>

T_string      == <<"s", "t", "r", "i", "n", "g">>
T_int         == <<"i", "n", "t">>
T_float       == <<"f", "l", "o", "a", "t">>
T_bool        == <<"b", "o", "o", "l">>
T_date        == <<"d", "a", "t", "e">>
T_array       == <<"a", "r", "r", "a", "y">>
T_table       == <<"t", "a", "b", "l", "e">>
T_alternative == <<"a", "l", "t", "e", "r", "n", "a", "t", "i", "v", "e">>
T_anything    == <<"a", "n", "y", "t", "h", "i", "n", "g">>
T_exact       == <<"e", "x", "a", "c", "t">>

COk(s, dv) == [ok |-> TRUE, schema |-> s, dv |-> dv]
CErr(msg, at, cause) ==
    [ok |-> FALSE, err |-> [msg |-> msg, at |-> at, cause |-> cause]]

\* Map::get
TableGet(table, key) == IF key \in DOMAIN table THEN Some(table[key]) ELSE None

\* TryFrom<&str> for SchemaType
SchemaTypeTryFrom(value) ==
    CASE value = T_string      -> Some("String")
      [] value = T_int         -> Some("Integer")
      [] value = T_float       -> Some("Float")
      [] value = T_bool        -> Some("Bool")
      [] value = T_date        -> Some("Date")
      [] value = T_array       -> Some("Array")
      [] value = T_table       -> Some("Table")
      [] value = T_alternative -> Some("Alternative")
      [] OTHER                 -> None

\* the error the loop over table.keys() returns: errs gives, for each key,
\* the error its arm returns if any, and the first key in the order of
\* table.keys() that has one ends the loop; None when no key has one
FirstKeyError(table, errs) ==
    LET keys == SortedKeys(DOMAIN table)
        bad == {i \in 1..Len(keys) : IsSome(errs[keys[i]])}
    IN  IF bad = {} THEN None
        ELSE errs[keys[CHOOSE i \in bad : \A j \in bad : i <= j]]

\* "default" => dv = Some(table[k].clone())
DefaultOf(table) == TableGet(table, K_default)

\* the value a builder leaves in a variable that key k sets: the key's
\* value when the key is there, the initial value otherwise
FieldOr(table, k, init) == IF k \in DOMAIN table THEN table[k].v ELSE init

StringKeyErr(table, k) ==
    IF k = K_regex
    THEN IF table[k].k # "String"
         THEN Some(CErr("regex must be a string", k, None).err)
         ELSE IF ~RegexValid(table[k].v)
         THEN Some(CErr("regex syntax error", k, None).err)
         ELSE None
    ELSE None

\* the regex an absent "regex" key leaves: ".*"
AnyRegex == <<".", "*">>

parse_string(table) ==
    LET e == FirstKeyError(table, [k \in DOMAIN table |-> StringKeyErr(table, k)])
    IN  IF IsSome(e) THEN [ok |-> FALSE, err |-> Unwrap(e)]
        ELSE COk(SString(FieldOr(table, K_regex, AnyRegex)), DefaultOf(table))

IntKeyErr(table, k) ==
    IF k = K_min /\ table[k].k # "Integer"
    THEN Some(CErr("Int min must be an int", k, None).err)
    ELSE IF k = K_max /\ table[k].k # "Integer"
    THEN Some(CErr("Int max must be an int", k, None).err)
    ELSE None

parse_int(table) ==
    LET e == FirstKeyError(table, [k \in DOMAIN table |-> IntKeyErr(table, k)])
    IN  IF IsSome(e) THEN [ok |-> FALSE, err |-> Unwrap(e)]
        ELSE COk(SInteger(FieldOr(table, K_min, I64_MIN),
                          FieldOr(table, K_max, I64_MAX)), DefaultOf(table))

FloatKeyErr(table, k) ==
    IF k = K_min /\ table[k].k # "Float"
    THEN Some(CErr("Float min must be a float", k, None).err)
    ELSE IF k = K_max /\ table[k].k # "Float"
    THEN Some(CErr("Float max must be a float", k, None).err)
    ELSE IF k = K_nan_ok /\ table[k].k # "Boolean"
    THEN Some(CErr("Float nan_ok must be a boolean", k, None).err)
    ELSE None

parse_float(table) ==
    LET e == FirstKeyError(table, [k \in DOMAIN table |-> FloatKeyErr(table, k)])
    IN  IF IsSome(e) THEN [ok |-> FALSE, err |-> Unwrap(e)]
        ELSE COk(SFloat(FieldOr(table, K_min, FNegInf),
                        FieldOr(table, K_max, FPosInf),
                        FieldOr(table, K_nan_ok, FALSE)), DefaultOf(table))

parse_bool(table) == COk(SBool, DefaultOf(table))

parse_date(table) == COk(SDate, DefaultOf(table))

parse_anything(table) == COk(SAnything, DefaultOf(table))

parse_exact(table) ==
    IF K_value \in DOMAIN table
    THEN COk(SExact(table[K_value]), DefaultOf(table))
    ELSE CErr("Exact without a value is not allowed", K_value, None)

\* Value::Integer(i) if *i >= 0, the shape of the min and max of arrays
\* and tables
\* a variant of the count test that lets a negative integer through
IsCountAnyInt(v) == v.k = "Integer"

IsCount(v) == v.k = "Integer" /\ v.v >= 0

RECURSIVE from_table(_)
RECURSIVE ExtrasLoop(_, _, _)
RECURSIVE TableKeysLoop(_, _, _, _)
RECURSIVE OptionsLoop(_, _, _)

ArrayKeyErr(table, k) ==
    IF k = K_min /\ ~IsCount(table[k])
    THEN Some(CErr("Array min size must be a positive int", k, None).err)
    ELSE IF k = K_max /\ ~IsCount(table[k])
    THEN Some(CErr("Array max size must be a positive int", k, None).err)
    ELSE IF k = K_child /\ table[k].k = "Table" /\ ~from_table(table[k].v).ok
    THEN Some(CErr("Invalid array condition", k,
                   Some(from_table(table[k].v).err)).err)
    ELSE None

parse_array(table) ==
    LET e == FirstKeyError(table, [k \in DOMAIN table |-> ArrayKeyErr(table, k)])
    IN  IF IsSome(e) THEN [ok |-> FALSE, err |-> Unwrap(e)]
        ELSE IF K_child \in DOMAIN table /\ table[K_child].k = "Table"
        THEN COk(SArray(from_table(table[K_child].v).schema,
                        FieldOr(table, K_min, 0),
                        FieldOr(table, K_max, USIZE_MAX)), DefaultOf(table))
        ELSE CErr("Array without a 'child' key is not allowed", K_child, None)

\* the loop over the "extras" array, from record i on; extras holds the
\* records registered so far
ExtrasLoop(arr, i, extras) ==
    IF i > Len(arr) THEN [ok |-> TRUE, extras |-> extras]
    ELSE IF arr[i].k # "Table"
    THEN CErr("Extra entries must be tables", K_extras, None)
    ELSE LET extra_table == arr[i].v
             key == TableGet(extra_table, K_key)
             sch == TableGet(extra_table, K_schema)
         IN  IF ~(IsSome(key) /\ Unwrap(key).k = "String")
             THEN CErr("Extra entry keys must be strings", K_key, None)
             ELSE IF ~RegexValid(Unwrap(key).v)
             THEN CErr("Regex error", K_key, None)
             ELSE IF ~(IsSome(sch) /\ Unwrap(sch).k = "Table")
             THEN CErr("Extra entry schemas must be tables", K_schema, None)
             ELSE LET r == from_table(Unwrap(sch).v)
                  IN  IF ~r.ok
                      THEN CErr("In table extra with key", Unwrap(key).v, Some(r.err))
                      ELSE ExtrasLoop(arr, i + 1,
                               Append(extras, TableEntry(Unwrap(key).v, r.schema)))

\* a variant that cuts every leading '$'
RECURSIVE CustomKeyCutAll(_)
CustomKeyCutAll(k) ==
    IF Len(k) > 0 /\ Head(k) = "$" THEN CustomKeyCutAll(Tail(k)) ELSE k

\* the name a literal entry is registered under: a leading '$' is cut
CustomKey(k) == IF Len(k) > 0 /\ Head(k) = "$" THEN Tail(k) ELSE k

\* the map m after insert(k, v)
MapInsert(m, k, v) == [x \in DOMAIN m \cup {k} |-> IF x = k THEN v ELSE m[x]]

\* the loop of parse_table over table.keys(), from the i-th key on; acc
\* holds min, max, entries and extras as set so far
TableKeysLoop(table, keys, i, acc) ==
    IF i > Len(keys)
    THEN COk(STable(acc.extras, acc.min, acc.max, acc.entries), DefaultOf(table))
    ELSE LET k == keys[i]
         IN  CASE k = K_type \/ k = K_default ->
                    TableKeysLoop(table, keys, i + 1, acc)
               [] k = K_min ->
                    IF IsCount(table[k])
                    THEN TableKeysLoop(table, keys, i + 1,
                                       [acc EXCEPT !.min = table[k].v])
                    ELSE CErr("Array min size must be a positive int", k, None)
               [] k = K_max ->
                    IF IsCount(table[k])
                    THEN TableKeysLoop(table, keys, i + 1,
                                       [acc EXCEPT !.max = table[k].v])
                    ELSE CErr("Array max size must be a positive int", k, None)
               [] k = K_extras ->
                    IF table[k].k # "Array"
                    THEN CErr("Table entries must be an array", k, None)
                    ELSE LET r == ExtrasLoop(table[k].v, 1, acc.extras)
                         IN  IF ~r.ok THEN r
                             ELSE TableKeysLoop(table, keys, i + 1,
                                                [acc EXCEPT !.extras = r.extras])
               [] OTHER ->
                    IF table[k].k # "Table"
                    THEN CErr("Schema for key should be a table", CustomKey(k), None)
                    ELSE LET r == from_table(table[k].v)
                         IN  IF ~r.ok
                             THEN CErr("In schema for key", CustomKey(k), Some(r.err))
                             ELSE TableKeysLoop(table, keys, i + 1,
                                     [acc EXCEPT !.entries =
                                         MapInsert(@, CustomKey(k),
                                                   [schema |-> r.schema, def |-> r.dv])])

parse_table(table) ==
    TableKeysLoop(table, SortedKeys(DOMAIN table), 1,
                  [min |-> 0, max |-> USIZE_MAX, entries |-> EmptyMap, extras |-> <<>>])

\* the loop over the "options" array, from option i on
OptionsLoop(arr, i, options) ==
    IF i > Len(arr) THEN [ok |-> TRUE, options |-> options]
    ELSE IF arr[i].k # "Table"
    THEN CErr("Option in alternative must be a table", K_options, None)
    ELSE LET r == from_table(arr[i].v)
         IN  IF ~r.ok THEN CErr("In alternative option", K_options, Some(r.err))
             ELSE OptionsLoop(arr, i + 1, Append(options, r.schema))

parse_alternative(table) ==
    IF K_options \notin DOMAIN table THEN COk(SAlternative(<<>>), DefaultOf(table))
    ELSE IF table[K_options].k # "Array"
    THEN CErr("Alternative options must be an array", K_options, None)
    ELSE LET r == OptionsLoop(table[K_options].v, 1, <<>>)
         IN  IF ~r.ok THEN r
             ELSE COk(SAlternative(r.options), DefaultOf(table))

\* the builder from_table dispatches a SchemaType to
Builder(type, table) ==
    CASE type = "String"      -> parse_string(table)
      [] type = "Integer"     -> parse_int(table)
      [] type = "Date"        -> parse_date(table)
      [] type = "Bool"        -> parse_bool(table)
      [] type = "Float"       -> parse_float(table)
      [] type = "Array"       -> parse_array(table)
      [] type = "Table"       -> parse_table(table)
      [] type = "Alternative" -> parse_alternative(table)
      [] type = "Anything"    -> parse_anything(table)
      [] type = "Exact"       -> parse_exact(table)

\* the type name from_table reads: the "type" string, "table" when the key
\* is absent, nothing when the value is no string
TypeStr(table) ==
    LET t == TableGet(table, K_type)
    IN  IF ~IsSome(t) THEN Some(T_table)
        ELSE IF Unwrap(t).k = "String" THEN Some(Unwrap(t).v)
        ELSE None

\* TomlSchema::from_table
from_table(table) ==
    LET type_str == TypeStr(table)
    IN  IF ~IsSome(type_str)
        THEN CErr("Invalid schema format: type should be a string", K_type, None)
        ELSE LET type == SchemaTypeTryFrom(Unwrap(type_str))
             IN  IF ~IsSome(type)
                 THEN CErr("Invalid schema type", Unwrap(type_str), None)
                 ELSE Builder(Unwrap(type), table)

\* TryFrom<toml::Table> for TomlSchema: the default is dropped
try_from(table) ==
    LET r == from_table(table)
    IN  IF r.ok THEN [ok |-> TRUE, schema |-> r.schema] ELSE r

-----------------------------------------------------------------------------
(* check_and_complete *)

\* a variant that names every literal entry with a default, present or not
MissingDefaultsAll(entries, table) ==
    {k \in DOMAIN entries : IsSome(entries[k].def)}

\* the literal entries with a default whose key the candidate lacks: the
\* entries for which the first loop calls table.insert
MissingDefaults(entries, table) ==
    {k \in DOMAIN entries : IsSome(entries[k].def) /\ k \notin DOMAIN table}

\* Map::insert returns the value the key held before: None for a new key
InsertReturn(table, k) == TableGet(table, k)

\* table.insert(k.clone(), d.clone()).unwrap() panics on a None
InsertPanics(table, k) == ~IsSome(InsertReturn(table, k))

\* TomlSchema::check_and_complete when its first loop inserts nothing: the
\* arms are those of check, and the nested calls are calls of check
CompleteNoInsert(s, d) == Check(s, d)

\* d with the missing defaults of s put in, in d and in the tables nested in
\* it under literal entries
RECURSIVE FillNested(_, _)
FillNested(s, d) ==
    IF s.t = "Table" /\ d.k = "Table"
    THEN VTable([k \in DOMAIN d.v \cup MissingDefaults(s.entries, d.v) |->
                    IF k \notin DOMAIN d.v THEN Unwrap(s.entries[k].def)
                    ELSE IF k \in DOMAIN s.entries
                    THEN FillNested(s.entries[k].schema, d.v[k])
                    ELSE d.v[k]])
    ELSE d

\* a variant of check_and_complete that completes the nested tables too
check_and_complete_nested(s, d, k) ==
    [data |-> FillNested(s, d), panic |-> FALSE,
     res |-> Check(s, FillNested(s, d))]

\* TomlSchema::check_and_complete.  entries is a HashMap, so its iteration
\* may meet any of the missing defaults first: k is that entry, and is
\* read only when one is missing.  The outcome is the candidate as the call
\* leaves it and either a panic or the Result.
check_and_complete(s, d, k) ==
    IF s.t = "Table" /\ d.k = "Table" /\ MissingDefaults(s.entries, d.v) # {}
    THEN LET inserted == VTable(MapInsert(d.v, k, Unwrap(s.entries[k].def)))
         IN  IF InsertPanics(d.v, k)
             THEN [data |-> inserted, panic |-> TRUE]
             ELSE [data |-> inserted, panic |-> FALSE,
                   res |-> CompleteNoInsert(s, inserted)]
    ELSE [data |-> d, panic |-> FALSE, res |-> CompleteNoInsert(s, d)]

-----------------------------------------------------------------------------
(* The candidates and the schema documents of the model *)

S_bob == <<"b", "o", "b">>
S_no  == <<"n", "o">>
K_name == <<"n", "a", "m", "e">>
K_age  == <<"a", "g", "e">>
K_xa   == <<"x", "_", "a">>
K_xb   == <<"x", "_", "b">>

IntValues ==
    {VInteger(i) : i \in (-MaxInt)..MaxInt} \cup {VInteger(I64_MIN), VInteger(I64_MAX)}

ScalarValues ==
    IntValues \cup
    { VString(S_bob), VString(S_no), VFloat(FNaN), VFloat(FNum(1)),
      VFloat(FNum(-1)), VFloat(FNegInf), VFloat(FPosInf), VBoolean(TRUE), VDatetime(<<"1", "0", "1", "5">>) }

ElementValues == {VInteger(-1), VInteger(1), VString(S_no), VTable(EmptyMap)}

ArrayValues ==
    {VArray(a) : a \in UNION {[1..n -> ElementValues] : n \in 0..MaxArrLen}}

FieldValues ==
    {VInteger(0), VInteger(1), VString(S_bob), VString(S_no), VTable(EmptyMap)}

DataKeys == {K_name, K_age, K_xa, K_xb}

TableValues ==
    {VTable(f) : f \in UNION {[D -> FieldValues] :
                     D \in {D \in SUBSET DataKeys : Cardinality(D) <= MaxKeys}}}

Values == ScalarValues \cup ArrayValues \cup TableValues

\* a schema document of one kind and nothing else
DocOfType(t) == K_type :> VString(t)

D_int01 == DocOfType(T_int) @@ (K_min :> VInteger(0)) @@ (K_max :> VInteger(1))
D_intmin0 == DocOfType(T_int) @@ (K_min :> VInteger(0))
D_intmax1 == DocOfType(T_int) @@ (K_max :> VInteger(1))
D_age == D_int01 @@ (K_default :> VInteger(0))
D_name == DocOfType(T_string) @@ (K_regex :> VString(<<"^", "b">>))
D_extra_x_int ==
    VTable((K_key :> VString(<<"^", "x", "_">>)) @@ (K_schema :> VTable(DocOfType(T_int))))
D_extra_x_str ==
    VTable((K_key :> VString(<<"^", "x", "_">>)) @@ (K_schema :> VTable(DocOfType(T_string))))
D_extra_any_int01 ==
    VTable((K_key :> VString(<<".", "*">>)) @@ (K_schema :> VTable(D_int01)))

\* {type="table", name={type="string", regex="^b"}, age={type="int", min=0, max=1, default=0}}
D_person ==
    DocOfType(T_table) @@ (K_name :> VTable(D_name)) @@ (K_age :> VTable(D_age))

\* two entries with a default, and no "type"
D_defaults ==
    (K_name :> VTable(D_name @@ (K_default :> VString(S_bob))))
    @@ (K_age :> VTable(D_age))

\* {type="array", child={type="int", min=0}, min=1, max=2}
D_array ==
    DocOfType(T_array) @@ (K_child :> VTable(D_intmin0))
    @@ (K_min :> VInteger(1)) @@ (K_max :> VInteger(2))

\* an array of up to three integers of [0,1]
D_array3 ==
    DocOfType(T_array) @@ (K_child :> VTable(D_int01)) @@ (K_max :> VInteger(3))

\* {type="table", extras=[{key="^x_", schema={type="int"}}], min=1, max=2}
D_extras ==
    DocOfType(T_table) @@ (K_extras :> VArray(<<D_extra_x_int>>))
    @@ (K_min :> VInteger(1)) @@ (K_max :> VInteger(2))

\* {type="table", extras=[{key="^x_", schema={type="int"}}]}: no "min", no "max"
D_extras_nomax ==
    DocOfType(T_table) @@ (K_extras :> VArray(<<D_extra_x_int>>))

\* {"$type"={type="string"}, "$$x"={type="int"}, name={type="string", regex="^b"}}
D_dollar ==
    (<<"$", "t", "y", "p", "e">> :> VTable(DocOfType(T_string)))
    @@ (<<"$", "$", "x">> :> VTable(DocOfType(T_int)))
    @@ (K_name :> VTable(D_name))

\* two keys that are registered under the one name x_a
D_dollar_twice ==
    (<<"$", "x", "_", "a">> :> VTable(DocOfType(T_int)))
    @@ (K_xa :> VTable(DocOfType(T_string)))

\* an entry whose default does not match its schema
D_baddefault ==
    K_age :> VTable(D_int01 @@ (K_default :> VString(S_no)))

\* a table whose one entry has a default: {age={type="int", min=0, max=1, default=0}}
D_aged == K_age :> VTable(D_age)

\* the table with a default nested under a literal entry, under extras, as
\* array element and as Alternative option
D_nested == K_name :> VTable(D_aged)

D_nested_extras ==
    K_extras :> VArray(<<VTable((K_key :> VString(<<".", "*">>))
                                @@ (K_schema :> VTable(D_aged)))>>)

D_nested_array == DocOfType(T_array) @@ (K_child :> VTable(D_aged))

D_nested_alternative ==
    DocOfType(T_alternative) @@ (K_options :> VArray(<<VTable(D_int01), VTable(D_aged)>>))

\* a literal entry age beside the extras pattern "^x_"
D_age_extras ==
    (K_age :> VTable(D_int01)) @@ (K_extras :> VArray(<<D_extra_x_int>>))

\* a literal entry x_a that the extras pattern also matches
D_overlap ==
    (K_xa :> VTable(DocOfType(T_string)))
    @@ (K_extras :> VArray(<<D_extra_x_int>>)) @@ (K_max :> VInteger(1))

\* two extras records whose patterns both match x_a and x_b
D_extras2 ==
    (K_extras :> VArray(<<D_extra_x_str, D_extra_any_int01>>))
    @@ (K_min :> VInteger(1)) @@ (K_max :> VInteger(1))

D_alternative ==
    DocOfType(T_alternative)
    @@ (K_options :> VArray(<<VTable(D_int01), VTable(D_name), VTable(D_array)>>))

D_float ==
    DocOfType(T_float) @@ (K_min :> VFloat(FNum(0))) @@ (K_nan_ok :> VBoolean(TRUE))

\* {type="float", min=0.0, max=1.0}: nan_ok is left out
D_float01 ==
    DocOfType(T_float) @@ (K_min :> VFloat(FNum(0))) @@ (K_max :> VFloat(FNum(1)))

\* a float schema whose range is empty and that lets NaN through
D_float_nan_only ==
    DocOfType(T_float) @@ (K_min :> VFloat(FNum(1))) @@ (K_max :> VFloat(FNum(0)))
    @@ (K_nan_ok :> VBoolean(TRUE))

\* {type="float", min=nan}
D_float_minnan == DocOfType(T_float) @@ (K_min :> VFloat(FNaN))

GoodDocs ==
    { D_person, D_defaults, D_age_extras, D_baddefault, D_nested, D_nested_extras,
      D_nested_array, D_nested_alternative, D_dollar, D_dollar_twice, D_array, D_array3, D_extras, D_extras_nomax, D_overlap, D_extras2,
      D_alternative, D_float, D_float01, D_float_nan_only, D_float_minnan,
      D_int01, D_intmin0, D_intmax1, D_name,
      DocOfType(T_int), DocOfType(T_string), DocOfType(T_float),
      DocOfType(T_bool), DocOfType(T_date), DocOfType(T_table), EmptyMap }

BadDocs ==
    { DocOfType(T_anything),
      DocOfType(T_exact) @@ (K_value :> VInteger(1)),
      DocOfType(T_exact),
      DocOfType(<<"b", "o", "b">>),
      K_type :> VInteger(5),
      DocOfType(T_string) @@ (K_regex :> VInteger(5)),
      DocOfType(T_string) @@ (K_regex :> VString(<<"(">>)),
      DocOfType(T_int) @@ (K_min :> VString(S_no)),
      DocOfType(T_array),
      DocOfType(T_array) @@ (K_child :> VTable(DocOfType(T_anything))),
      DocOfType(T_table) @@ (K_name :> VInteger(1)),
      DocOfType(T_table) @@ (K_extras :> VArray(<<VInteger(1)>>)),
      DocOfType(T_alternative) @@ (K_options :> VArray(<<VTable(DocOfType(T_exact))>>)) }

\* documents with an option key of the wrong shape, one for each option of
\* each builder
ShapeDocs ==
    { DocOfType(T_int) @@ (K_max :> VFloat(FNum(1))),
      DocOfType(T_float) @@ (K_min :> VInteger(1)),
      DocOfType(T_float) @@ (K_max :> VString(S_no)),
      DocOfType(T_float) @@ (K_nan_ok :> VInteger(1)),
      (K_min :> VInteger(-1)) @@ D_array,
      (K_max :> VString(S_no)) @@ D_array,
      DocOfType(T_array) @@ (K_child :> VInteger(5)),
      DocOfType(T_table) @@ (K_min :> VInteger(-1)),
      DocOfType(T_table) @@ (K_max :> VFloat(FNum(1))),
      DocOfType(T_table) @@ (K_extras :> VInteger(5)),
      K_extras :> VArray(<<VTable(K_schema :> VTable(DocOfType(T_int)))>>),
      K_extras :> VArray(<<VTable((K_key :> VInteger(1))
                                  @@ (K_schema :> VTable(DocOfType(T_int))))>>),
      K_extras :> VArray(<<VTable(K_key :> VString(<<"^", "x", "_">>))>>),
      K_extras :> VArray(<<VTable((K_key :> VString(<<"^", "x", "_">>))
                                  @@ (K_schema :> VInteger(1)))>>),
      DocOfType(T_alternative) @@ (K_options :> VInteger(5)),
      DocOfType(T_alternative) @@ (K_options :> VArray(<<VTable(D_int01), VInteger(1)>>)) }

\* documents whose wrong shape lies in a nested node
DeepShapeDocs ==
    { K_name :> VTable(DocOfType(T_string) @@ (K_regex :> VInteger(5))),
      DocOfType(T_array) @@ (K_child :> VTable(DocOfType(T_int) @@ (K_min :> VString(S_no)))),
      DocOfType(T_alternative)
          @@ (K_options :> VArray(<<VTable(D_int01),
                                    VTable(DocOfType(T_float) @@ (K_nan_ok :> VInteger(1)))>>)),
      K_extras :> VArray(<<D_extra_x_int,
                           VTable((K_key :> VString(<<".", "*">>))
                                  @@ (K_schema :> VTable(DocOfType(T_array))))>>),
      K_name :> VTable(DocOfType(T_array)
                       @@ (K_child :> VTable(K_age :> VTable((K_max :> VBoolean(TRUE)) @@ D_int01)))) }

K_junk == <<"j", "u", "n", "k">>

\* documents of the kinds other than table with a key their builder does
\* not know
JunkDocs ==
    { D_int01 @@ (K_regex :> VInteger(5)),
      D_name @@ (K_min :> VString(S_no)),
      D_float01 @@ (K_junk :> VInteger(1)),
      DocOfType(T_bool) @@ (K_min :> VString(S_no)),
      DocOfType(T_date) @@ (K_junk :> VTable(EmptyMap)),
      D_array @@ (K_extras :> VInteger(5)),
      D_alternative @@ (K_child :> VInteger(5)) }

SchemaDocs == GoodDocs \cup BadDocs \cup ShapeDocs \cup DeepShapeDocs \cup JunkDocs

\* schemas built by hand from the public variants of TomlSchema: the ones
\* from_table does not produce
HandSchemas ==
    { SAnything,
      SExact(VInteger(1)),
      SExact(VString(S_bob)),
      SExact(VArray(<<VInteger(1)>>)),
      SExact(VTable(K_name :> VString(S_bob))),
      SArray(SAnything, 0, USIZE_MAX),
      STable(<<TableEntry(<<".", "*">>, SAnything)>>, 0, USIZE_MAX, EmptyMap),
      SAlternative(<<SExact(VInteger(1)), SString(<<"^", "b">>)>>) }

-----------------------------------------------------------------------------
(* The state machine: a schema is constructed once, then candidates are     *)
(* supplied and checked against it.                                         *)

NoSchema == [t |-> "NoSchema"]
NoData == [k |-> "NoData"]
NotBuilt == [how |-> "none"]
NoCall == [op |-> "none", panic |-> FALSE]

Init ==
    /\ schema = NoSchema
    /\ built = NotBuilt
    /\ data = NoData
    /\ before = NoData
    /\ result = NoCall

\* TomlSchema::try_from(doc)
TryFrom ==
    /\ schema.t = "NoSchema"
    /\ \E doc \in SchemaDocs :
          LET r == try_from(doc)
          IN  /\ built' = [how |-> "try_from", doc |-> doc, res |-> r]
              /\ schema' = IF r.ok THEN r.schema ELSE NoSchema
    /\ UNCHANGED <<data, before, result>>

\* the caller writes a TomlSchema value itself
Construct ==
    /\ schema.t = "NoSchema"
    /\ \E s \in HandSchemas :
          /\ built' = [how |-> "by_hand"]
          /\ schema' = s
    /\ UNCHANGED <<data, before, result>>

\* the caller takes a candidate.  A call reads nothing of the candidates of
\* earlier calls, so each candidate is followed in a run of its own.
Supply ==
    /\ schema.t # "NoSchema"
    /\ data.k = "NoData"
    /\ \E v \in Values : data' = v
    /\ before' = NoData
    /\ result' = NoCall
    /\ UNCHANGED <<schema, built>>

\* schema.check(&data)
CallCheck ==
    /\ schema.t # "NoSchema"
    /\ data.k # "NoData"
    /\ ~result.panic
    /\ before' = data
    /\ result' = [op |-> "check", panic |-> FALSE, res |-> Check(schema, data)]
    /\ UNCHANGED <<schema, built, data>>

\* schema.check_and_complete(&mut data); a panic ends the program
CallCheckAndComplete ==
    /\ schema.t # "NoSchema"
    /\ data.k # "NoData"
    /\ ~result.panic
    /\ before' = data
    /\ \E k \in IF schema.t = "Table" /\ data.k = "Table"
                   /\ MissingDefaults(schema.entries, data.v) # {}
                THEN MissingDefaults(schema.entries, data.v) ELSE {<<>>} :
          LET out == check_and_complete(schema, data, k)
          IN  /\ data' = out.data
              /\ result' = IF out.panic
                           THEN [op |-> "check_and_complete", panic |-> TRUE]
                           ELSE [op |-> "check_and_complete", panic |-> FALSE,
                                 res |-> out.res]
    /\ UNCHANGED <<schema, built>>

Next ==
    \/ TryFrom
    \/ Construct
    \/ Supply
    \/ CallCheck
    \/ CallCheckAndComplete

Spec == Init /\ [][Next]_vars

-----------------------------------------------------------------------------
(* Vocabulary of the properties *)

\* the last call was check, on a candidate that the call left as it was
Checked == result.op = "check"

\* the last call was check_and_complete
Completed == result.op = "check_and_complete"

\* the last call returned a Result
Returned == result.op # "none" /\ ~result.panic

\* a Table schema met a candidate table
TableCall == schema.t = "Table" /\ before.k = "Table"

\* candidate keys that are literal entry names, and the others
LiteralKeys(s, table) == DOMAIN table \cap DOMAIN s.entries
OtherKeys(s, table) == DOMAIN table \ DOMAIN s.entries

\* extras records whose key pattern matches key
Matching(extras, key) == {i \in 1..Len(extras) : IsMatch(extras[i].key, key)}

\* extras records whose pattern matches key and whose schema validates value
Accepting(extras, key, value) ==
    {i \in Matching(extras, key) : Check(extras[i].value, value).ok}

\* the least element of a non-empty set of indices
Least(I) == CHOOSE i \in I : \A j \in I : i <= j

-----------------------------------------------------------------------------
(* C1 -- check_and_complete on a Table schema and a candidate table that     *)
(* lacks defaulted literal entries inserts each such default under its key,  *)
(* leaves every key that was present with the value it had, and returns Ok   *)
(* when the completed table matches the schema.                              *)

\* the candidate with every missing default put in
CompletedTable(s, table) ==
    [k \in DOMAIN table \cup MissingDefaults(s.entries, table) |->
        IF k \in DOMAIN table THEN table[k] ELSE Unwrap(s.entries[k].def)]

C1_CompletionInsertsDefaults ==
    (Completed /\ TableCall /\ MissingDefaults(schema.entries, before.v) # {}) =>
        /\ ~result.panic
        /\ data = VTable(CompletedTable(schema, before.v))
        /\ Check(schema, data).ok => result.res.ok

(* C2 -- no call of check or check_and_complete panics.                      *)
C2_NoPanic == ~result.panic

C4_AnythingMatchesAll == (Checked /\ schema.t = "Anything") => result.res.ok

(* C5 -- check of an Exact schema returns Ok if and only if the candidate    *)
(* is structurally equal to the captured literal.                            *)
C5_ExactIffEqual ==
    (Checked /\ schema.t = "Exact") => (result.res.ok <=> before = schema.value)

(* C6 -- construction dispatches on "type": each of the ten type names       *)
(* reaches the builder of its kind, an absent "type" is built as a table,    *)
(* and any other "type" makes construction fail.                             *)

\* the kind each type name of the documentation stands for
KindOfName(name) ==
    CASE name = T_string      -> "String"
      [] name = T_int         -> "Integer"
      [] name = T_float       -> "Float"
      [] name = T_bool        -> "Bool"
      [] name = T_date        -> "Date"
      [] name = T_array       -> "Array"
      [] name = T_table       -> "Table"
      [] name = T_alternative -> "Alternative"
      [] name = T_anything    -> "Anything"
      [] name = T_exact       -> "Exact"
      [] OTHER                -> "unknown"

\* what the builder of a kind makes of a document, as try_from returns it
BuiltBy(kind, doc) ==
    LET r == Builder(kind, doc)
    IN  IF r.ok THEN [ok |-> TRUE, schema |-> r.schema] ELSE r

\* the construction ended as the builder of the kind ends on the document:
\* with the same node, or with an error as the builder does
EndsAs(kind, doc, res) ==
    LET b == BuiltBy(kind, doc)
    IN  /\ res.ok = b.ok
        /\ res.ok => res = b

C6_DispatchOnType ==
    built.how = "try_from" =>
        LET t == TableGet(built.doc, K_type)
        IN  IF ~IsSome(t) THEN EndsAs("Table", built.doc, built.res)
            ELSE IF Unwrap(t).k = "String" /\ KindOfName(Unwrap(t).v) # "unknown"
            THEN EndsAs(KindOfName(Unwrap(t).v), built.doc, built.res)
            ELSE ~built.res.ok

-----------------------------------------------------------------------------
(* C7 -- when a Table schema is matched against a candidate table, a key     *)
(* that is a literal entry name is resolved by that entry's schema, also     *)
(* when an extras pattern matches it: the call succeeds only if the entry's  *)
(* schema validates the value, a failure at such a key is the entry's error  *)
(* under AtKey, and the extras count compared with [min,max] counts only     *)
(* the keys that are no literal entry names.                                 *)
C7_LiteralBeforeExtras ==
    (Returned /\ TableCall) =>
        LET r == result.res
            lit == LiteralKeys(schema, before.v)
            others == OtherKeys(schema, before.v)
        IN  /\ r.ok =>
                /\ \A k \in lit : Check(schema.entries[k].schema, before.v[k]).ok
                /\ Cardinality(others) >= schema.min
                /\ Cardinality(others) <= schema.max
            /\ (\E k \in lit : ~Check(schema.entries[k].schema, before.v[k]).ok)
                  => ~r.ok
            /\ (~r.ok /\ r.err.e = "AtKey") =>
                /\ r.err.key \in lit
                /\ r.err.error =
                      Check(schema.entries[r.err.key].schema, before.v[r.err.key]).err
            /\ (~r.ok /\ r.err.e = "TableCount") =>
                r.err.count = Cardinality(others)
            /\ (~r.ok /\ r.err.e = "NoMatch") =>
                \E k \in others : r.err.value = before.v[k]

\* a literal key that an extras record would accept fails by its entry's
\* schema, or passes without being counted as an extra
C7_Witness ==
    /\ Checked /\ TableCall
    /\ \E k \in LiteralKeys(schema, before.v) :
          /\ Matching(schema.extras, k) # {}
          /\ \/ /\ Accepting(schema.extras, k, before.v[k]) # {}
                /\ ~result.res.ok
                /\ result.res.err.e = "AtKey"
                /\ result.res.err.key = k
             \/ /\ result.res.ok
                /\ Cardinality(OtherKeys(schema, before.v)) = schema.max

(* C8 -- a candidate key that is no literal entry name is accepted if and    *)
(* only if some extras record has a pattern matching the key and a schema    *)
(* validating the value; the records are tried in declared order and the     *)
(* first that validates ends the search; a failure carries the errors of     *)
(* exactly the records whose pattern matched, in declared order.             *)

\* the errors, in declared order, of the records from i on whose pattern
\* matches key
RECURSIVE MatchingErrors(_, _, _, _)
MatchingErrors(extras, key, value, i) ==
    IF i > Len(extras) THEN <<>>
    ELSE IF IsMatch(extras[i].key, key)
    THEN <<Check(extras[i].value, value).err>>
         \o MatchingErrors(extras, key, value, i + 1)
    ELSE MatchingErrors(extras, key, value, i + 1)

\* the calls of check spent on the matching records up to record n
RECURSIVE CallsUpTo(_, _, _, _)
CallsUpTo(extras, key, value, n) ==
    IF n = 0 THEN 0
    ELSE CallsUpTo(extras, key, value, n - 1)
         + IF IsMatch(extras[n].key, key) THEN Check(extras[n].value, value).calls
           ELSE 0

C8_ExtrasSearch ==
    (Returned /\ TableCall) =>
        LET r == result.res
            others == OtherKeys(schema, before.v)
        IN  /\ r.ok =>
                \A k \in others : Accepting(schema.extras, k, before.v[k]) # {}
            /\ (\E k \in others : Accepting(schema.extras, k, before.v[k]) = {})
                  => ~r.ok
            /\ (~r.ok /\ r.err.e = "NoMatch") =>
                \E k \in others :
                    /\ Accepting(schema.extras, k, before.v[k]) = {}
                    /\ r.err.value = before.v[k]
                    /\ r.err.errors = MatchingErrors(schema.extras, k, before.v[k], 1)
            /\ (r.ok /\ DOMAIN before.v = others /\ Cardinality(others) = 1) =>
                \A k \in others :
                    r.calls = 1 + CallsUpTo(schema.extras, k, before.v[k],
                                    Least(Accepting(schema.extras, k, before.v[k])))

\* a key whose first matching record fails, and which a later record
\* accepts while a record after that one matches too; or a key rejected
\* with the errors of two records
C8_Witness ==
    /\ Checked /\ TableCall
    /\ \E k \in OtherKeys(schema, before.v) :
          LET m == Matching(schema.extras, k)
              a == Accepting(schema.extras, k, before.v[k])
          IN  \/ /\ result.res.ok
                 /\ DOMAIN before.v = {k}
                 /\ a # {}
                 /\ \E i \in m : i < Least(a)
              \/ /\ ~result.res.ok
                 /\ result.res.err.e = "NoMatch"
                 /\ a = {}
                 /\ Len(result.res.err.errors) = 2
                 /\ Cardinality(m) = 2

(* C9 -- for a candidate table whose pairs are each accepted, the call       *)
(* returns Ok if and only if the number of keys accepted through extras is   *)
(* in [min,max], bounds included, and returns TableCount with that number    *)
(* and the two bounds otherwise.                                             *)

\* every pair is accepted: by its literal entry, or by an extras record
AllPairsAccepted(s, table) ==
    /\ \A k \in LiteralKeys(s, table) : Check(s.entries[k].schema, table[k]).ok
    /\ \A k \in OtherKeys(s, table) : Accepting(s.extras, k, table[k]) # {}

C9_ExtrasCountBound ==
    (Returned /\ TableCall /\ AllPairsAccepted(schema, before.v)) =>
        LET n == Cardinality(OtherKeys(schema, before.v))
        IN  IF schema.min <= n /\ n <= schema.max THEN result.res.ok
            ELSE /\ ~result.res.ok
                 /\ result.res.err =
                       [e |-> "TableCount", count |-> n,
                        min |-> schema.min, max |-> schema.max]

\* the count is at a bound and passes, in a schema that bounds it from
\* both sides
C9_Witness ==
    /\ Checked /\ TableCall /\ AllPairsAccepted(schema, before.v)
    /\ result.res.ok
    /\ schema.min > 0
    /\ Cardinality(OtherKeys(schema, before.v)) = schema.max

\* the count is over the maximum
C9_WitnessOver ==
    /\ Checked /\ TableCall /\ AllPairsAccepted(schema, before.v)
    /\ ~result.res.ok
    /\ Cardinality(OtherKeys(schema, before.v)) > schema.max

(* C10 -- for an Array schema and a candidate array: a length outside        *)
(* [min,max] gives the count error and no element is checked; otherwise the  *)
(* elements are checked in index order, the error is that of the failing     *)
(* element of lowest index, wrapped with that element, and no element after  *)
(* it is checked; the call succeeds iff the length is in range and every     *)
(* element matches.                                                          *)

\* the indices of the elements that fail the child schema
FailingElements(s, arr) == {i \in 1..Len(arr) : ~Check(s.cond, arr[i]).ok}

\* the calls of check spent on the first n elements
RECURSIVE ElementCalls(_, _, _)
ElementCalls(s, arr, n) ==
    IF n = 0 THEN 0
    ELSE ElementCalls(s, arr, n - 1) + Check(s.cond, arr[n]).calls

C10_ArrayOrder ==
    (Returned /\ schema.t = "Array" /\ before.k = "Array") =>
        LET r == result.res
            arr == before.v
            bad == FailingElements(schema, arr)
        IN  IF Len(arr) < schema.min \/ Len(arr) > schema.max
            THEN r = ErrR([e |-> "ArrayMiss", count |-> Len(arr),
                           min |-> schema.min, max |-> schema.max], 1)
            ELSE IF bad = {}
            THEN r = OkR(1 + ElementCalls(schema, arr, Len(arr)))
            ELSE r = ErrR([e |-> "AtIndex", val |-> arr[Least(bad)],
                           error |-> Check(schema.cond, arr[Least(bad)]).err],
                          1 + ElementCalls(schema, arr, Least(bad)))

\* an array of a length in range with a matching element first and two
\* failing elements after it
C10_Witness ==
    /\ Checked /\ schema.t = "Array" /\ before.k = "Array"
    /\ ~result.res.ok
    /\ result.res.err.e = "AtIndex"
    /\ Cardinality(FailingElements(schema, before.v)) >= 2
    /\ 1 \notin FailingElements(schema, before.v)

-----------------------------------------------------------------------------
(* C11 -- against an Alternative schema a candidate of any kind succeeds     *)
(* iff at least one option validates it; the options are tried in declared   *)
(* order up to the first that validates; when none does, the error is        *)
(* NoMatch with the candidate and exactly one error per option, in declared  *)
(* order.                                                                    *)

\* the options that validate the candidate
PassingOptions(opts, any) == {i \in 1..Len(opts) : Check(opts[i], any).ok}

\* the calls of check spent on the first n options
RECURSIVE OptionCalls(_, _, _)
OptionCalls(opts, any, n) ==
    IF n = 0 THEN 0
    ELSE OptionCalls(opts, any, n - 1) + Check(opts[n], any).calls

C11_AlternativeAnyOption ==
    (Returned /\ schema.t = "Alternative") =>
        LET r == result.res
            opts == schema.opts
            pass == PassingOptions(opts, before)
        IN  IF pass # {}
            THEN r = OkR(1 + OptionCalls(opts, before, Least(pass)))
            ELSE r = ErrR([e |-> "NoMatch", value |-> before,
                           errors |-> [i \in 1..Len(opts) |->
                                          Check(opts[i], before).err]],
                          1 + OptionCalls(opts, before, Len(opts)))

\* every one of three options refused the candidate
C11_Witness ==
    /\ Returned /\ schema.t = "Alternative"
    /\ ~result.res.ok
    /\ Len(result.res.err.errors) = 3
    /\ Len(schema.opts) = 3

\* the first two options refused the candidate and the third took it
C11_WitnessLater ==
    /\ Returned /\ schema.t = "Alternative"
    /\ result.res.ok
    /\ PassingOptions(schema.opts, before) = {3}

-----------------------------------------------------------------------------
(* C12 -- against an Integer schema an integer candidate v succeeds iff      *)
(* min <= v <= max, the two bounds included; a failing v yields IntMiss with *)
(* v, min and max.  A schema compiled without "min" has the least i64 as its *)
(* minimum, one compiled without "max" the greatest i64 as its maximum, and  *)
(* one compiled with neither accepts every integer.                          *)

C12_IntegerRange ==
    (Returned /\ schema.t = "Integer" /\ before.k = "Integer") =>
        LET v == before.v
        IN  /\ result.res =
                  IF schema.min <= v /\ v <= schema.max THEN OkR(1)
                  ELSE ErrR([e |-> "IntMiss", val |-> v,
                             min |-> schema.min, max |-> schema.max], 1)
            /\ built.how = "try_from" =>
                  /\ schema.min = IF K_min \in DOMAIN built.doc
                                  THEN built.doc[K_min].v ELSE I64_MIN
                  /\ schema.max = IF K_max \in DOMAIN built.doc
                                  THEN built.doc[K_max].v ELSE I64_MAX
                  /\ DOMAIN built.doc \cap {K_min, K_max} = {} => result.res.ok

\* the least integer is accepted by a schema compiled without "min"
C12_Witness ==
    /\ Returned /\ schema.t = "Integer" /\ before.k = "Integer"
    /\ built.how = "try_from" /\ K_min \notin DOMAIN built.doc
    /\ before.v = I64_MIN
    /\ result.res.ok

\* an integer just above a declared maximum is refused
C12_WitnessMiss ==
    /\ Returned /\ schema.t = "Integer" /\ before.k = "Integer"
    /\ built.how = "try_from" /\ K_max \in DOMAIN built.doc
    /\ before.v = schema.max + 1
    /\ ~result.res.ok

-----------------------------------------------------------------------------
(* C13 -- against a Float schema a NaN candidate fails when nan_ok is false  *)
(* and succeeds when it is true, whatever min and max are; a candidate that  *)
(* is not NaN succeeds iff min <= v <= max, whatever nan_ok is.              *)

C13_FloatRange ==
    (Returned /\ schema.t = "Float" /\ before.k = "Float") =>
        LET v == before.v
        IN  IF FIsNan(v) THEN result.res.ok <=> schema.nan_ok
            ELSE result.res.ok <=> (FLe(schema.min, v) /\ FLe(v, schema.max))

\* NaN is accepted by a schema with nan_ok whose range holds no float
C13_Witness ==
    /\ Returned /\ schema.t = "Float" /\ before.k = "Float"
    /\ FIsNan(before.v) /\ schema.nan_ok
    /\ ~FLe(schema.min, schema.max)
    /\ result.res.ok

\* NaN is refused by a schema without nan_ok whose range is everything
C13_WitnessNanRefused ==
    /\ Returned /\ schema.t = "Float" /\ before.k = "Float"
    /\ FIsNan(before.v) /\ ~schema.nan_ok
    /\ schema.min = FNegInf /\ schema.max = FPosInf
    /\ ~result.res.ok

\* a number below the minimum is refused by a schema with nan_ok
C13_WitnessBelow ==
    /\ Returned /\ schema.t = "Float" /\ before.k = "Float"
    /\ ~FIsNan(before.v) /\ schema.nan_ok
    /\ ~FLe(schema.min, before.v)
    /\ ~result.res.ok

-----------------------------------------------------------------------------
(* C14 -- check_and_complete is idempotent on a candidate table: the first   *)
(* call returns a result, and a second call on the table the first one left  *)
(* changes nothing and returns that same result.                             *)

\* the entries the first loop of a call on table may meet first
InsertChoices(s, d) ==
    IF s.t = "Table" /\ d.k = "Table" /\ MissingDefaults(s.entries, d.v) # {}
    THEN MissingDefaults(s.entries, d.v) ELSE {<<>>}

\* a further call on the candidate as it is now changes nothing and returns r
SecondCallSame(r) ==
    \A k \in InsertChoices(schema, data) :
        LET out == check_and_complete(schema, data, k)
        IN  /\ ~out.panic
            /\ out.data = data
            /\ out.res = r

C14_Idempotent ==
    (Completed /\ before.k = "Table") =>
        /\ ~result.panic
        /\ SecondCallSame(result.res)

-----------------------------------------------------------------------------
(* C15 -- a constructed schema is never modified; check leaves the candidate *)
(* as it was; check_and_complete, however it ends, changes the candidate     *)
(* only by adding keys that are literal entries with a default and were      *)
(* absent, with that default as value: every key present before is still     *)
(* present with the same value.                                              *)

\* new is old with nothing changed but defaults of s added under absent keys
OnlyDefaultsAdded(s, old, new) ==
    IF s.t = "Table" /\ old.k = "Table"
    THEN /\ new.k = "Table"
         /\ \A k \in DOMAIN old.v : k \in DOMAIN new.v /\ new.v[k] = old.v[k]
         /\ \A k \in DOMAIN new.v \ DOMAIN old.v :
               /\ k \in DOMAIN s.entries
               /\ IsSome(s.entries[k].def)
               /\ new.v[k] = Unwrap(s.entries[k].def)
    ELSE new = old

C15_Frame ==
    [][ /\ schema.t # "NoSchema" => schema' = schema
        /\ result'.op = "check" => data' = data
        /\ result'.op = "check_and_complete" =>
              OnlyDefaultsAdded(schema, data, data') ]_vars

\* a call of check_and_complete added a key to a table that held another
C15_Witness ==
    /\ Completed /\ TableCall
    /\ DOMAIN before.v # {}
    /\ DOMAIN data.v # DOMAIN before.v

\* a call of check left a table as it was
C15_WitnessCheck ==
    /\ Checked /\ TableCall
    /\ DOMAIN before.v # {}
    /\ data = before

-----------------------------------------------------------------------------
(* C16 -- a table schema compiled from a document without "max" has 0 as its *)
(* maximum number of extra keys (and without "min" 0 as its minimum), so a   *)
(* candidate table with one or more keys accepted through extras fails.      *)

C16_TableMaxDefault ==
    ( /\ Returned /\ TableCall
      /\ built.how = "try_from" /\ K_max \notin DOMAIN built.doc
      /\ OtherKeys(schema, before.v) # {}
      /\ \A k \in OtherKeys(schema, before.v) :
            Accepting(schema.extras, k, before.v[k]) # {} ) =>
        /\ schema.max = 0
        /\ K_min \notin DOMAIN built.doc => schema.min = 0
        /\ ~result.res.ok

-----------------------------------------------------------------------------
(* C17 -- every key of a table schema document other than "type",            *)
(* "default", "min", "max" and "extras" becomes a literal entry: a key that  *)
(* begins with '$' is registered with exactly one leading '$' removed, any   *)
(* other key unchanged, and the entry holds the schema and the default       *)
(* compiled from the key's value.  Of two keys registered under one name the *)
(* later in the order of the document's keys stays.                          *)

ReservedKeys == {K_type, K_default, K_min, K_max, K_extras}

\* k without its first character when that is '$'
OneDollarOff(k) ==
    IF Len(k) >= 1 /\ k[1] = "$" THEN SubSeq(k, 2, Len(k)) ELSE k

\* the keys of doc that are registered under name
RegisteredAs(doc, name) ==
    {k \in DOMAIN doc \ ReservedKeys : OneDollarOff(k) = name}

\* the greatest key of a non-empty set
Greatest(S) == CHOOSE k \in S : \A j \in S : j = k \/ StrLess(j, k)

C17_LiteralEntryNames ==
    (built.how = "try_from" /\ built.res.ok /\ schema.t = "Table") =>
        LET doc == built.doc
        IN  /\ DOMAIN schema.entries =
                  {OneDollarOff(k) : k \in DOMAIN doc \ ReservedKeys}
            /\ \A name \in DOMAIN schema.entries :
                  LET c == from_table(doc[Greatest(RegisteredAs(doc, name))].v)
                  IN  /\ c.ok
                      /\ schema.entries[name] = [schema |-> c.schema, def |-> c.dv]

\* "$type" is registered as "type", "$$x" as "$x" and "name" as "name"
C17_Witness ==
    /\ built.how = "try_from" /\ built.res.ok /\ schema.t = "Table"
    /\ <<"$", "$", "x">> \in DOMAIN built.doc
    /\ DOMAIN schema.entries = {K_type, <<"$", "x">>, K_name}

-----------------------------------------------------------------------------
(* C18 -- construction never validates a default against the schema it is    *)
(* attached to: a document compiles to the same schema whatever its entries' *)
(* defaults are.  A default is validated only when check_and_complete        *)
(* inserts it: with a default that does not match its schema,                *)
(* check_and_complete returns an error on a table lacking the key, though    *)
(* check passes on that table.                                               *)

\* the document t without its "default"
WithoutDefault(t) == [x \in DOMAIN t \ {K_default} |-> t[x]]

\* the missing defaults of the candidate that do not match their own schema
BadMissingDefaults(s, table) ==
    {k \in MissingDefaults(s.entries, table) :
        ~Check(s.entries[k].schema, Unwrap(s.entries[k].def)).ok}

\* apart from its missing defaults the candidate matches: its keys are literal
\* entries whose schemas validate their values, and the entries it lacks have
\* a default
MatchesButDefaults(s, table) ==
    /\ \A k \in DOMAIN table :
          k \in DOMAIN s.entries /\ Check(s.entries[k].schema, table[k]).ok
    /\ \A k \in DOMAIN s.entries \ DOMAIN table : IsSome(s.entries[k].def)

C18_DefaultNotValidated ==
    /\ built.how = "try_from" =>
          \A k \in DOMAIN built.doc :
              built.doc[k].k = "Table" =>
                  LET c == from_table(built.doc[k].v)
                      n == from_table(WithoutDefault(built.doc[k].v))
                  IN  /\ c.ok = n.ok
                      /\ c.ok => c.schema = n.schema
    /\ ( /\ TableCall /\ result.op # "none"
         /\ MatchesButDefaults(schema, before.v)
         /\ BadMissingDefaults(schema, before.v) # {} ) =>
          /\ Checked => result.res.ok
          /\ Completed => ~result.panic /\ ~result.res.ok

-----------------------------------------------------------------------------
(* C19 -- construction is all-or-nothing: when an option key that the node's *)
(* kind recognizes has the wrong shape, at any depth of the document, the    *)
(* construction returns an error and no schema.  The shapes: a string's      *)
(* regex is a string; an int's min and max are integers; a float's min and   *)
(* max are floats and its nan_ok a boolean; an array's and a table's min and *)
(* max are integers >= 0; an array's child is there and is a table; extras   *)
(* is an array of tables with a string "key" and a table "schema"; options   *)
(* is an array of tables; an exact has a value; a literal entry is a table.  *)
(* A key that a node of a kind other than table does not recognize changes   *)
(* nothing of the outcome.                                                   *)

\* the kind a node document declares: table when it has no "type"
DeclaredKind(doc) ==
    IF K_type \notin DOMAIN doc THEN T_table
    ELSE IF doc[K_type].k = "String" THEN doc[K_type].v
    ELSE <<>>

\* key k is in doc with a value of a kind other than kind
NotA(doc, k, kind) == k \in DOMAIN doc /\ doc[k].k # kind

\* key k is in doc with a value that is not an integer >= 0
NotACount(doc, k) ==
    k \in DOMAIN doc /\ ~(doc[k].k = "Integer" /\ doc[k].v >= 0)

\* some recognized option key of doc, or of a node nested in it, has the
\* wrong shape
RECURSIVE WrongShape(_)
WrongShape(doc) ==
    LET kind == DeclaredKind(doc)
        \* a nested node document that is not a table, or is a wrong one
        BadNode(v) == v.k # "Table" \/ WrongShape(v.v)
    IN  CASE kind = T_string -> NotA(doc, K_regex, "String")
          [] kind = T_int ->
                NotA(doc, K_min, "Integer") \/ NotA(doc, K_max, "Integer")
          [] kind = T_float ->
                \/ NotA(doc, K_min, "Float") \/ NotA(doc, K_max, "Float")
                \/ NotA(doc, K_nan_ok, "Boolean")
          [] kind = T_array ->
                \/ NotACount(doc, K_min) \/ NotACount(doc, K_max)
                \/ K_child \notin DOMAIN doc
                \/ BadNode(doc[K_child])
          [] kind = T_table ->
                \/ NotACount(doc, K_min) \/ NotACount(doc, K_max)
                \/ NotA(doc, K_extras, "Array")
                \/ /\ K_extras \in DOMAIN doc /\ doc[K_extras].k = "Array"
                   /\ \E i \in 1..Len(doc[K_extras].v) :
                         LET x == doc[K_extras].v[i]
                         IN  \/ x.k # "Table"
                             \/ K_key \notin DOMAIN x.v
                             \/ NotA(x.v, K_key, "String")
                             \/ K_schema \notin DOMAIN x.v
                             \/ BadNode(x.v[K_schema])
                \/ \E k \in DOMAIN doc \ ReservedKeys : BadNode(doc[k])
          [] kind = T_alternative ->
                \/ NotA(doc, K_options, "Array")
                \/ /\ K_options \in DOMAIN doc /\ doc[K_options].k = "Array"
                   /\ \E i \in 1..Len(doc[K_options].v) :
                         BadNode(doc[K_options].v[i])
          [] kind = T_exact -> K_value \notin DOMAIN doc
          [] OTHER -> FALSE

\* the keys the builder of a kind reads
RecognizedKeys(kind) ==
    {K_type, K_default} \cup
    CASE kind = T_string -> {K_regex}
      [] kind = T_int -> {K_min, K_max}
      [] kind = T_float -> {K_min, K_max, K_nan_ok}
      [] kind = T_array -> {K_min, K_max, K_child}
      [] kind = T_alternative -> {K_options}
      [] kind = T_exact -> {K_value}
      [] OTHER -> {}

\* doc without the key k
WithoutKey(doc, k) == [x \in DOMAIN doc \ {k} |-> doc[x]]

C19_AllOrNothing ==
    built.how = "try_from" =>
        /\ WrongShape(built.doc) => ~built.res.ok /\ schema = NoSchema
        /\ ~built.res.ok => schema = NoSchema
        /\ DeclaredKind(built.doc) # T_table =>
              \A k \in DOMAIN built.doc \ RecognizedKeys(DeclaredKind(built.doc)) :
                  LET c == try_from(WithoutKey(built.doc, k))
                  IN  /\ c.ok = built.res.ok
                      /\ c.ok => c.schema = built.res.schema

\* a wrong shape two nodes down: the error wraps the error of a nested
\* construction that itself wraps one
C19_Witness ==
    /\ built.how = "try_from" /\ WrongShape(built.doc)
    /\ ~built.res.ok
    /\ IsSome(built.res.err.cause)
    /\ IsSome(Unwrap(built.res.err.cause).cause)

\* a node with a key its builder does not know was compiled
C19_WitnessJunk ==
    /\ built.how = "try_from" /\ built.res.ok
    /\ DeclaredKind(built.doc) = T_array
    /\ DOMAIN built.doc \ RecognizedKeys(T_array) # {}

-----------------------------------------------------------------------------
(* C20 -- check_and_complete inserts defaults only into the table passed to  *)
(* the call, when the schema is a Table: the values under the candidate's    *)
(* keys, the elements of a candidate array and a candidate tried against the *)
(* options of an Alternative are validated as check validates them and stay  *)
(* as they were, so a nested table that lacks a literal entry with a default *)
(* is left without that key.                                                 *)

\* the nested value v is a table that lacks a default of the table schema s
LacksDefault(s, v) ==
    s.t = "Table" /\ v.k = "Table" /\ MissingDefaults(s.entries, v.v) # {}

C20_TopLevelOnly ==
    Completed =>
        /\ before.k = "Table" =>
              /\ data.k = "Table"
              /\ \A k \in DOMAIN before.v :
                    k \in DOMAIN data.v /\ data.v[k] = before.v[k]
        /\ (before.k # "Table" \/ schema.t # "Table") => data = before
        /\ Returned => result.res = Check(schema, data)

\* the call returned Ok on a table whose value under a literal entry is a
\* table that still lacks that entry's nested default
C20_Witness ==
    /\ Completed /\ TableCall /\ Returned /\ result.res.ok
    /\ \E k \in LiteralKeys(schema, data.v) :
          LacksDefault(schema.entries[k].schema, data.v[k])

\* the same for a value accepted through extras
C20_WitnessExtras ==
    /\ Completed /\ TableCall /\ Returned /\ result.res.ok
    /\ \E k \in OtherKeys(schema, data.v) :
          \E i \in Accepting(schema.extras, k, data.v[k]) :
              LacksDefault(schema.extras[i].value, data.v[k])

\* the same for an array element
C20_WitnessArray ==
    /\ Completed /\ Returned /\ result.res.ok
    /\ schema.t = "Array" /\ data.k = "Array"
    /\ \E i \in 1..Len(data.v) : LacksDefault(schema.cond, data.v[i])

\* the same for a table passed to an Alternative whose option takes it
C20_WitnessAlternative ==
    /\ Completed /\ Returned /\ result.res.ok
    /\ schema.t = "Alternative"
    /\ \E i \in PassingOptions(schema.opts, data) :
          LacksDefault(schema.opts[i], data)

-----------------------------------------------------------------------------
(* C21 -- table schemas are closed.  A candidate table with a key that is no *)
(* literal entry name and that no extras pattern matches fails; in           *)
(* particular a schema without extras refuses every table with a key that is *)
(* no literal entry.  The keys are met in the order of the candidate's keys  *)
(* and the first that fails gives the error: a key that nothing matches      *)
(* gives NoMatch with its value and an empty list of errors; a literal entry *)
(* whose schema refuses the value gives AtKey with the entry's error, and no *)
(* extras record is tried on it.                                             *)

\* the keys of the candidate that no extras pattern matches, among those that
\* are no literal entries
UnmatchedKeys(s, table) ==
    {k \in OtherKeys(s, table) : Matching(s.extras, k) = {}}

\* the key fails: its entry refuses the value, or no extras record accepts it
KeyFails(s, table, k) ==
    IF k \in DOMAIN s.entries THEN ~Check(s.entries[k].schema, table[k]).ok
    ELSE Accepting(s.extras, k, table[k]) = {}

\* the calls of check spent on the key: those of its entry for a literal
\* entry, else those of the extras search
KeyCalls(s, table, k) ==
    IF k \in DOMAIN s.entries THEN Check(s.entries[k].schema, table[k]).calls
    ELSE IF Accepting(s.extras, k, table[k]) = {}
    THEN CallsUpTo(s.extras, k, table[k], Len(s.extras))
    ELSE CallsUpTo(s.extras, k, table[k], Least(Accepting(s.extras, k, table[k])))

\* the calls of check spent on the first n keys
RECURSIVE KeysCalls(_, _, _, _)
KeysCalls(s, table, keys, n) ==
    IF n = 0 THEN 0
    ELSE KeysCalls(s, table, keys, n - 1) + KeyCalls(s, table, keys[n])

C21_ClosedTable ==
    (Returned /\ TableCall) =>
        LET r == result.res
            table == before.v
            keys == SortedKeys(DOMAIN table)
            bad == {i \in 1..Len(keys) : KeyFails(schema, table, keys[i])}
        IN  /\ UnmatchedKeys(schema, table) # {} => ~r.ok
            /\ (schema.extras = <<>> /\ OtherKeys(schema, table) # {}) => ~r.ok
            /\ bad # {} =>
                  LET k == keys[Least(bad)]
                  IN  IF k \in UnmatchedKeys(schema, table)
                      THEN r = ErrR([e |-> "NoMatch", value |-> table[k],
                                     errors |-> <<>>],
                                    1 + KeysCalls(schema, table, keys, Least(bad) - 1))
                      ELSE k \in DOMAIN schema.entries =>
                             r = ErrR([e |-> "AtKey", key |-> k,
                                       error |-> Check(schema.entries[k].schema,
                                                       table[k]).err],
                                      1 + KeysCalls(schema, table, keys, Least(bad) - 1)
                                        + Check(schema.entries[k].schema, table[k]).calls)

\* after a key that passed, a key that no pattern of a schema with extras
\* matches was refused with an empty list of errors
C21_Witness ==
    /\ Checked /\ TableCall
    /\ schema.extras # <<>>
    /\ Cardinality(DOMAIN before.v) >= 2
    /\ ~result.res.ok
    /\ result.res.err.e = "NoMatch"
    /\ result.res.err.errors = <<>>
    /\ result.res.calls >= 2

\* a schema without extras refused a table for a key that is no literal entry
C21_WitnessNoExtras ==
    /\ Checked /\ TableCall
    /\ schema.extras = <<>> /\ DOMAIN schema.entries # {}
    /\ OtherKeys(schema, before.v) # {}
    /\ ~result.res.ok
    /\ result.res.err.e = "NoMatch"

\* a literal entry refused a value that an extras record accepts, and only
\* the entry's schema was tried
C21_WitnessNoRetry ==
    /\ Checked /\ TableCall
    /\ ~result.res.ok
    /\ result.res.err.e = "AtKey"
    /\ Accepting(schema.extras, result.res.err.key, before.v[result.res.err.key]) # {}
    /\ result.res.calls = 2

====
